---- MODULE Spec2Model ----
(***************************************************************************)
(* The hit-counter relay of lambda/typescript/hitcounter.ts and its        *)
(* JavaScript twin: a Lambda handler that adds 1 to the DynamoDB item of   *)
(* the request's path, publishes a 'hit' metric, invokes the downstream    *)
(* "hello" function with the request and returns the parsed reply.         *)
(*                                                                         *)
(* The handler is an async function: it is suspended at its two awaits,    *)
(* and DynamoDB, the Lambda service and other invocations of the handler   *)
(* run in between.  Each await is therefore a separate step.               *)
(***************************************************************************)
EXTENDS Integers, Sequences, FiniteSets, TLC

(***************************************************************************)
(* Bounds.                                                                 *)
(***************************************************************************)
NumCalls == 2

Calls == 1..NumCalls

(***************************************************************************)
(* Strings and bytes.  A string is a TLA+ string, a byte sequence a        *)
(* sequence of numbers.  Buffer.from(string) encodes UTF-8; the strings of *)
(* the model are ASCII, so a character is one byte.                        *)
(***************************************************************************)
\* the ASCII characters 32..95 and 97..126, in code order (a TLA+ string
\* cannot hold the backquote, 96; no string of the model contains it)
PrintableLow ==
  " !\"#$%&'()*+,-./0123456789:;<=>?@ABCDEFGHIJKLMNOPQRSTUVWXYZ[\\]^_"

PrintableHigh == "abcdefghijklmnopqrstuvwxyz{|}~"

\* stands for U+FFFD, which Buffer.toString() puts in place of invalid UTF-8
ReplacementChar == "\f"

CharAt(s, i) == SubSeq(s, i, i)

CharsOf(s) == {CharAt(s, i) : i \in 1..Len(s)}

IndexIn(s, ch) == CHOOSE i \in 1..Len(s) : CharAt(s, i) = ch

\* the ASCII code of every character of the model
CharCode ==
  [ch \in CharsOf(PrintableLow) \cup CharsOf(PrintableHigh) \cup {"\n"} |->
     IF ch = "\n" THEN 10
     ELSE IF ch \in CharsOf(PrintableLow) THEN 31 + IndexIn(PrintableLow, ch)
     ELSE 96 + IndexIn(PrintableHigh, ch)]

\* the character of every byte but 96
CodeChar ==
  [b \in (0..255) \ {96} |->
     IF b = 10 THEN "\n"
     ELSE IF b >= 32 /\ b <= 95 THEN CharAt(PrintableLow, b - 31)
     ELSE IF b >= 97 /\ b <= 126 THEN CharAt(PrintableHigh, b - 96)
     ELSE ReplacementChar]

\* Buffer.from(str): the bytes of a string
BufferFrom(str) == [i \in 1..Len(str) |-> CharCode[CharAt(str, i)]]

RECURSIVE BufferToString(_)
\* Buffer.from(bytes).toString(): the string of a byte sequence (halved, to
\* keep the evaluation shallow)
BufferToString(bytes) ==
  IF Len(bytes) = 0 THEN ""
  ELSE IF Len(bytes) = 1 THEN CodeChar[bytes[1]]
  ELSE LET half == Len(bytes) \div 2
       IN  BufferToString(SubSeq(bytes, 1, half))
           \o BufferToString(SubSeq(bytes, half + 1, Len(bytes)))

(***************************************************************************)
(* JSON values: null, non-negative integers, strings, and objects whose    *)
(* members keep their insertion order, as JavaScript objects do.           *)
(***************************************************************************)
JNull == [t |-> "null", n |-> 0, s |-> "", o |-> << >>]
JNum(n) == [t |-> "num", n |-> n, s |-> "", o |-> << >>]
JStr(s) == [t |-> "str", n |-> 0, s |-> s, o |-> << >>]
JObj(o) == [t |-> "obj", n |-> 0, s |-> "", o |-> o]
Member(k, v) == [k |-> k, v |-> v]

HasKey(obj, k) == \E i \in 1..Len(obj.o) : obj.o[i].k = k

\* obj[k]
Get(obj, k) == obj.o[CHOOSE i \in 1..Len(obj.o) : obj.o[i].k = k].v

\* obj[k] = v: an existing key keeps its place, a new key goes last
Put(obj, k, v) ==
  IF HasKey(obj, k)
  THEN JObj([i \in 1..Len(obj.o) |->
               IF obj.o[i].k = k THEN Member(k, v) ELSE obj.o[i]])
  ELSE JObj(Append(obj.o, Member(k, v)))

Digit(d) == CharAt("0123456789", d + 1)

RECURSIVE Digits(_)
Digits(n) == IF n < 10 THEN Digit(n) ELSE Digits(n \div 10) \o Digit(n % 10)

RECURSIVE Escape(_)
Escape(s) ==
  IF s = "" THEN ""
  ELSE IF Len(s) = 1
  THEN CASE s = "\"" -> "\\\""
         [] s = "\\" -> "\\\\"
         [] s = "\n" -> "\\n"
         [] OTHER -> s
  ELSE LET half == Len(s) \div 2
       IN  Escape(SubSeq(s, 1, half)) \o Escape(SubSeq(s, half + 1, Len(s)))

Quote(s) == "\"" \o Escape(s) \o "\""

RECURSIVE JSONstringify(_)
\* JSON.stringify(value): no white space, members in insertion order
JSONstringify(v) ==
  CASE v.t = "null" -> "null"
    [] v.t = "num" -> Digits(v.n)
    [] v.t = "str" -> Quote(v.s)
    [] v.t = "obj" ->
         LET RECURSIVE Members(_)
             Members(i) ==
               IF i > Len(v.o) THEN ""
               ELSE (IF i > 1 THEN "," ELSE "")
                    \o Quote(v.o[i].k) \o ":" \o JSONstringify(v.o[i].v)
                    \o Members(i + 1)
         IN  "{" \o Members(1) \o "}"

(***************************************************************************)
(* JSON.parse, by recursive descent.  A parse step yields the value read   *)
(* and the text after it, or a SyntaxError.                                *)
(***************************************************************************)
SyntaxError == [ok |-> FALSE, v |-> JNull, rest |-> ""]
Parsed(v, rest) == [ok |-> TRUE, v |-> v, rest |-> rest]

DigitChars == CharsOf("0123456789")

StartsWith(s, p) == Len(s) >= Len(p) /\ SubSeq(s, 1, Len(p)) = p

Drop(s, n) == SubSeq(s, n + 1, Len(s))

RECURSIVE SkipWs(_)
SkipWs(s) ==
  IF s # "" /\ Head(s) \in {" ", "\n"} THEN SkipWs(Tail(s)) ELSE s

RECURSIVE Escaped(_, _)
\* position i of s is the character of an escape: the backslash before it
\* is not itself escaped
Escaped(s, i) == i > 1 /\ CharAt(s, i - 1) = "\\" /\ ~Escaped(s, i - 1)

RECURSIVE Unescape(_, _, _)
\* the characters lo..hi of the inside of a string literal, escapes undone
\* (halved, to keep the evaluation shallow)
Unescape(s, lo, hi) ==
  IF lo > hi THEN ""
  ELSE IF lo = hi
  THEN LET ch == CharAt(s, lo)
       IN  IF Escaped(s, lo) THEN (IF ch = "n" THEN "\n" ELSE ch)
           ELSE IF ch = "\\" THEN ""
           ELSE ch
  ELSE LET mid == (lo + hi) \div 2
       IN  Unescape(s, lo, mid) \o Unescape(s, mid + 1, hi)

\* s follows the opening quote: the literal ends at the first quote that is
\* not escaped; it holds no raw newline and only the escapes \" \\ \/ \n
ParseString(s) ==
  LET quotes == {i \in 1..Len(s) : CharAt(s, i) = "\"" /\ ~Escaped(s, i)}
      end == CHOOSE i \in quotes : \A k \in quotes : i <= k
  IN  IF quotes = {} THEN SyntaxError
      ELSE IF \E i \in 1..(end - 1) :
                \/ CharAt(s, i) = "\n"
                \/ CharAt(s, i) \notin {"\"", "\\", "/", "n"} /\ Escaped(s, i)
      THEN SyntaxError
      ELSE Parsed(JStr(Unescape(s, 1, end - 1)), Drop(s, end))

RECURSIVE ParseDigits(_, _)
ParseDigits(s, n) ==
  IF s # "" /\ Head(s) \in DigitChars
  THEN ParseDigits(Tail(s), 10 * n + IndexIn("0123456789", Head(s)) - 1)
  ELSE Parsed(JNum(n), s)

\* a number has no leading zero
ParseNumber(s) ==
  IF Head(s) = "0" THEN Parsed(JNum(0), Tail(s)) ELSE ParseDigits(s, 0)

RECURSIVE ParseValue(_)
RECURSIVE ParseMembers(_, _)
ParseValue(text) ==
  LET s == SkipWs(text)
  IN  IF s = "" THEN SyntaxError
      ELSE IF Head(s) = "\"" THEN ParseString(Tail(s))
      ELSE IF Head(s) \in DigitChars THEN ParseNumber(s)
      ELSE IF StartsWith(s, "null") THEN Parsed(JNull, Drop(s, 4))
      ELSE IF Head(s) = "{"
      THEN LET r == SkipWs(Tail(s))
           IN  IF r # "" /\ Head(r) = "}"
               THEN Parsed(JObj(<< >>), Tail(r))
               ELSE ParseMembers(r, JObj(<< >>))
      ELSE SyntaxError

\* text is at a member of the object whose earlier members are in obj; a
\* repeated key keeps its place and takes the later value
ParseMembers(text, obj) ==
  LET s == SkipWs(text)
  IN  IF s = "" \/ Head(s) # "\"" THEN SyntaxError
      ELSE LET key == ParseString(Tail(s))
               colon == SkipWs(key.rest)
               val == ParseValue(Tail(colon))
               next == SkipWs(val.rest)
           IN  IF ~key.ok \/ colon = "" \/ Head(colon) # ":" THEN SyntaxError
               ELSE IF ~val.ok \/ next = "" THEN SyntaxError
               ELSE IF Head(next) = "}"
               THEN Parsed(Put(obj, key.v.s, val.v), Tail(next))
               ELSE IF Head(next) = ","
               THEN ParseMembers(Tail(next), Put(obj, key.v.s, val.v))
               ELSE SyntaxError

\* JSON.parse(text): the value, or ok = FALSE where it throws a SyntaxError
JSONparse(text) ==
  LET r == ParseValue(text)
  IN  IF r.ok /\ SkipWs(r.rest) = ""
      THEN [ok |-> TRUE, v |-> r.v]
      ELSE [ok |-> FALSE, v |-> JNull]

(***************************************************************************)
(* Requests.  The event is the JSON value the Lambda runtime hands to the  *)
(* handler; its path is the key of the counter.  One event carries a       *)
(* further field, the other a path that JSON.stringify has to escape.      *)
(***************************************************************************)
Events ==
  { JObj(<<Member("path", JStr("/a")), Member("httpMethod", JStr("GET"))>>),
    JObj(<<Member("path", JStr("/\"b\""))>>) }

\* event.path
PathOf(ev) == Get(ev, "path").s

Paths == {PathOf(ev) : ev \in Events}

Entries == {"typescript", "javascript"}

(***************************************************************************)
(* The pieces of lambdaHandler.                                            *)
(***************************************************************************)
\* new UpdateCommand({Key: {path: event.path}, UpdateExpression:
\* 'ADD hits :incr', ExpressionAttributeValues: {':incr': 1}})
updateCommand(ev) == [Key |-> PathOf(ev), incr |-> 1]

\* a variant that forwards the path alone
invokeCommandPathOnly(ev) ==
  [Payload |->
     BufferFrom(JSONstringify(JObj(<<Member("path", JStr(PathOf(ev)))>>)))]

\* new InvokeCommand({Payload: Buffer.from(JSON.stringify(event))})
invokeCommand(ev) == [Payload |-> BufferFrom(JSONstringify(ev))]

\* the Metrics instance of the execution environment of an invocation: the
\* metrics that are stored, and the blobs that were published.  An
\* environment handles one invocation at a time, and no invocation leaves a
\* metric stored, so every invocation finds its instance empty.
NoMetrics == [stored |-> << >>, published |-> << >>]

hitMetric == [name |-> "hit", unit |-> "Count", value |-> 1]

\* metrics.addMetric(name, unit, value)
addMetric(m, metric) == [m EXCEPT !.stored = Append(@, metric)]

\* metrics.publishStoredMetrics(): writes the stored metrics out as one blob
\* and clears the store
publishStoredMetrics(m) ==
  [stored |-> << >>, published |-> Append(m.published, m.stored)]

\* the logMetrics middleware, when the handler has returned or thrown:
\* publishes what is still stored
logMetrics(m) == publishStoredMetrics(m)

\* what the handler makes of a resolved invocation: the response it returns,
\* or the error it throws.  TypeScript tests resp.Payload (a Uint8Array, of
\* any length, is truthy) and returns {} without one; JavaScript parses
\* resp.Payload whatever it is, and JSON.parse(undefined) throws.
Returns(v) == [kind |-> "response", value |-> v, error |-> ""]
Throws(e) == [kind |-> "error", value |-> JNull, error |-> e]
NoResult == [kind |-> "none", value |-> JNull, error |-> ""]

\* a variant that returns the payload's text without parsing it
ResponseUnparsed(lang, reply) ==
  IF lang = "typescript" /\ ~reply.hasPayload THEN Returns(JObj(<< >>))
  ELSE IF ~reply.hasPayload THEN Throws("SyntaxError")
  ELSE Returns(JStr(BufferToString(reply.Payload)))

Response(lang, reply) ==
  LET parsed == JSONparse(BufferToString(reply.Payload))
  IN  IF lang = "typescript" /\ ~reply.hasPayload THEN Returns(JObj(<< >>))
      ELSE IF ~reply.hasPayload THEN Throws("SyntaxError")
      ELSE IF parsed.ok THEN Returns(parsed.v)
      ELSE Throws("SyntaxError")

(***************************************************************************)
(* The collaborators.                                                      *)
(***************************************************************************)
\* a variant with the semantics of SET: the attribute becomes incr
AddHitsSet(t, key, incr) == (key :> incr) @@ t

\* DynamoDB's ADD: adds incr to the attribute of the item of the key, and
\* creates the item, counting from 0, when there is none
AddHits(t, key, incr) ==
  IF key \in DOMAIN t THEN [t EXCEPT ![key] = @ + incr]
  ELSE t @@ (key :> incr)

\* the downstream function, "hello"
helloHandler(ev) ==
  LET path == IF ev.t = "obj" /\ HasKey(ev, "path") /\ Get(ev, "path").t = "str"
              THEN PathOf(ev) ELSE "undefined"
  IN  JObj(<<Member("statusCode", JNum(200)),
             Member("headers",
                    JObj(<<Member("Content-Type", JStr("text/plain"))>>)),
             Member("body", JStr("Hello, World! You've hit \"" \o path
                                   \o "\".\n"))>>)

\* the payload of a reply to a function that threw
FunctionErrorValue ==
  JObj(<<Member("errorType", JStr("Error")),
         Member("errorMessage", JStr("boom"))>>)

NoReply == [hasPayload |-> FALSE, Payload |-> << >>, FunctionError |-> ""]
Reply(bytes, err) ==
  [hasPayload |-> TRUE, Payload |-> bytes, FunctionError |-> err]

NotRun == [ran |-> FALSE, event |-> JNull, result |-> JNull]
Ran(ev, res) == [ran |-> TRUE, event |-> ev, result |-> res]

Outcomes == {"function", "functionError", "garbled", "empty", "noPayload"}

(***************************************************************************)
(* State.                                                                  *)
(***************************************************************************)
VARIABLES
  entry,       \* the handler that is deployed: typescript or javascript
  table,       \* the Hits table: path -> hits, for the items that exist
  pc,          \* where each invocation of the handler is
  event,       \* its event
  update,      \* its UpdateCommand at DynamoDB
  invoke,      \* its InvokeCommand at the Lambda service
  resp,        \* what the Lambda service resolved the invocation with
  downstream,  \* the run of the downstream function on its behalf
  log,         \* the calls it made to its collaborators, in order
  result,      \* what it returned or threw
  metrics      \* the Metrics instance of its execution environment

vars ==
  <<entry, table, pc, event, update, invoke, resp, downstream, log, result,
    metrics>>

Init ==
  /\ entry \in Entries
  /\ table = << >>
  /\ pc = [c \in Calls |-> "idle"]
  /\ event = [c \in Calls |-> JNull]
  /\ update = [c \in Calls |-> [state |-> "none", Key |-> "", incr |-> 0]]
  /\ invoke = [c \in Calls |-> [state |-> "none", Payload |-> << >>]]
  /\ resp = [c \in Calls |-> NoReply]
  /\ downstream = [c \in Calls |-> NotRun]
  /\ log = [c \in Calls |-> << >>]
  /\ result = [c \in Calls |-> NoResult]
  /\ metrics = [c \in Calls |-> NoMetrics]

\* the stored count of a path: 0 while it has no item
Hits(p) == IF p \in DOMAIN table THEN table[p] ELSE 0

(***************************************************************************)
(* The handler, from one await to the next.                                *)
(***************************************************************************)
\* an invocation begins: up to `await dynamoDBDocumentClient.send(...)`.
\* Invocations are numbered in the order they begin.
lambdaHandler(c, ev) ==
  /\ pc[c] = "idle"
  /\ \A d \in Calls : d < c => pc[d] # "idle"
  /\ pc' = [pc EXCEPT ![c] = "awaitUpdate"]
  /\ event' = [event EXCEPT ![c] = ev]
  /\ update' = [update EXCEPT ![c] =
                  [state |-> "sent", Key |-> updateCommand(ev).Key,
                   incr |-> updateCommand(ev).incr]]
  /\ log' = [log EXCEPT ![c] = Append(@, "UpdateCommand")]
  /\ UNCHANGED <<entry, table, invoke, resp, downstream, result>>
  /\ UNCHANGED metrics

\* a variant without the await: the handler goes on whatever became of the
\* update
AfterUpdateNoAwait(c) ==
  /\ pc[c] = "awaitUpdate"
  /\ pc' = [pc EXCEPT ![c] = "awaitInvoke"]
  /\ invoke' = [invoke EXCEPT ![c] =
                  [state |-> "sent",
                   Payload |-> invokeCommand(event[c]).Payload]]
  /\ log' = [log EXCEPT ![c] =
               @ \o <<"addMetric", "publishStoredMetrics", "InvokeCommand">>]
  /\ metrics' = [metrics EXCEPT ![c] =
                   publishStoredMetrics(addMetric(@, hitMetric))]
  /\ UNCHANGED <<entry, table, event, update, resp, downstream, result>>

\* a variant without the call of publishStoredMetrics: the metric stays
\* stored until the middleware publishes it
AfterUpdateNoPublish(c) ==
  /\ pc[c] = "awaitUpdate"
  /\ update[c].state \in {"applied", "rejected"}
  /\ IF update[c].state = "rejected"
     THEN /\ pc' = [pc EXCEPT ![c] = "failed"]
          /\ result' = [result EXCEPT ![c] = Throws("CounterStoreError")]
          /\ metrics' = [metrics EXCEPT ![c] = logMetrics(@)]
          /\ UNCHANGED <<invoke, log>>
     ELSE /\ pc' = [pc EXCEPT ![c] = "awaitInvoke"]
          /\ metrics' = [metrics EXCEPT ![c] = addMetric(@, hitMetric)]
          /\ invoke' = [invoke EXCEPT ![c] =
                          [state |-> "sent",
                           Payload |-> invokeCommand(event[c]).Payload]]
          /\ log' = [log EXCEPT ![c] = @ \o <<"addMetric", "InvokeCommand">>]
          /\ UNCHANGED result
  /\ UNCHANGED <<entry, table, event, update, resp, downstream>>

\* the update settled: a rejection is thrown out of the handler; otherwise
\* the metric is added and published and the downstream function invoked, up
\* to `await lambdaClient.send(invokeCommand)`
AfterUpdate(c) ==
  /\ pc[c] = "awaitUpdate"
  /\ update[c].state \in {"applied", "rejected"}
  /\ IF update[c].state = "rejected"
     THEN /\ pc' = [pc EXCEPT ![c] = "failed"]
          /\ result' = [result EXCEPT ![c] = Throws("CounterStoreError")]
          /\ metrics' = [metrics EXCEPT ![c] = logMetrics(@)]
          /\ UNCHANGED <<invoke, log>>
     ELSE /\ pc' = [pc EXCEPT ![c] = "awaitInvoke"]
          /\ metrics' = [metrics EXCEPT ![c] =
                           publishStoredMetrics(addMetric(@, hitMetric))]
          /\ invoke' = [invoke EXCEPT ![c] =
                          [state |-> "sent",
                           Payload |-> invokeCommand(event[c]).Payload]]
          /\ log' = [log EXCEPT ![c] =
                       @ \o <<"addMetric", "publishStoredMetrics",
                              "InvokeCommand">>]
          /\ UNCHANGED result
  /\ UNCHANGED <<entry, table, event, update, resp, downstream>>

\* a variant that takes the increment back when the invocation failed
AfterInvokeRollback(c) ==
  /\ pc[c] = "awaitInvoke"
  /\ invoke[c].state \in {"resolved", "rejected"}
  /\ LET res == IF invoke[c].state = "rejected"
                THEN Throws("DownstreamInvocationError")
                ELSE Response(entry, resp[c])
     IN  /\ result' = [result EXCEPT ![c] = res]
         /\ pc' = [pc EXCEPT ![c] =
                     IF res.kind = "error" THEN "failed" ELSE "returned"]
         /\ table' = IF res.kind = "error"
                     THEN [table EXCEPT ![update[c].Key] = @ - 1]
                     ELSE table
  /\ metrics' = [metrics EXCEPT ![c] = logMetrics(@)]
  /\ UNCHANGED <<entry, event, update, invoke, resp, downstream, log>>

\* a variant that sends the invocation again when it was rejected
AfterInvokeRetry(c) ==
  /\ pc[c] = "awaitInvoke"
  /\ invoke[c].state \in {"resolved", "rejected"}
  /\ IF invoke[c].state = "rejected"
     THEN /\ invoke' = [invoke EXCEPT ![c].state = "sent"]
          /\ log' = [log EXCEPT ![c] = Append(@, "InvokeCommand")]
          /\ UNCHANGED <<pc, result, metrics>>
     ELSE /\ result' = [result EXCEPT ![c] = Response(entry, resp[c])]
          /\ pc' = [pc EXCEPT ![c] =
                      IF Response(entry, resp[c]).kind = "error"
                      THEN "failed" ELSE "returned"]
          /\ metrics' = [metrics EXCEPT ![c] = logMetrics(@)]
          /\ UNCHANGED <<invoke, log>>
  /\ UNCHANGED <<entry, table, event, update, resp, downstream>>

\* the invocation settled: a rejection is thrown out of the handler;
\* otherwise the reply is parsed and returned.  Either way the logMetrics
\* middleware then publishes what is stored.
AfterInvoke(c) ==
  /\ pc[c] = "awaitInvoke"
  /\ invoke[c].state \in {"resolved", "rejected"}
  /\ LET res == IF invoke[c].state = "rejected"
                THEN Throws("DownstreamInvocationError")
                ELSE Response(entry, resp[c])
     IN  /\ result' = [result EXCEPT ![c] = res]
         /\ pc' = [pc EXCEPT ![c] =
                     IF res.kind = "error" THEN "failed" ELSE "returned"]
  /\ metrics' = [metrics EXCEPT ![c] = logMetrics(@)]
  /\ UNCHANGED <<entry, table, event, update, invoke, resp, downstream, log>>

\* the Lambda runtime ends an invocation whose time is up while the request
\* it awaits is pending; nothing of the handler runs after that.  An update
\* that was sent may still be applied.
Timeout(c) ==
  /\ \/ pc[c] = "awaitUpdate" /\ update[c].state = "sent"
     \/ pc[c] = "awaitInvoke" /\ invoke[c].state = "sent"
  /\ pc' = [pc EXCEPT ![c] = "timedOut"]
  /\ UNCHANGED <<entry, table, event, update, invoke, resp, downstream, log,
                 result>>
  /\ UNCHANGED metrics

(***************************************************************************)
(* DynamoDB and the Lambda service.                                        *)
(***************************************************************************)
\* DynamoDB applies an update it was sent, in one step
DynamoUpdate(c) ==
  /\ update[c].state = "sent"
  /\ table' = AddHits(table, update[c].Key, update[c].incr)
  /\ update' = [update EXCEPT ![c].state = "applied"]
  /\ UNCHANGED <<entry, pc, event, invoke, resp, downstream, log, result>>
  /\ UNCHANGED metrics

\* or rejects it (unavailable, throttled, no such table)
DynamoReject(c) ==
  /\ update[c].state = "sent"
  /\ update' = [update EXCEPT ![c].state = "rejected"]
  /\ UNCHANGED <<entry, table, pc, event, invoke, resp, downstream, log,
                 result>>
  /\ UNCHANGED metrics

\* the Lambda service resolves an invocation: it ran the function on the
\* event of the payload and replies with its serialized result, or with the
\* error it threw; or the reply carries bytes that are no JSON text, no
\* bytes, or no payload
LambdaResolve(c, outcome) ==
  /\ pc[c] = "awaitInvoke"
  /\ invoke[c].state = "sent"
  /\ LET request == JSONparse(BufferToString(invoke[c].Payload))
         value == IF outcome = "function" THEN helloHandler(request.v)
                  ELSE FunctionErrorValue
     IN  /\ outcome \in {"function", "functionError"} => request.ok
         /\ downstream' = [downstream EXCEPT ![c] =
                             IF outcome \in {"function", "functionError"}
                             THEN Ran(request.v, value) ELSE NotRun]
         /\ resp' = [resp EXCEPT ![c] =
                       CASE outcome = "function" ->
                              Reply(BufferFrom(JSONstringify(value)), "")
                         [] outcome = "functionError" ->
                              Reply(BufferFrom(JSONstringify(value)),
                                    "Unhandled")
                         [] outcome = "garbled" ->
                              Reply(BufferFrom("{\"statusCode\":"), "")
                         [] outcome = "empty" -> Reply(<< >>, "")
                         [] outcome = "noPayload" -> NoReply]
  /\ invoke' = [invoke EXCEPT ![c].state = "resolved"]
  /\ UNCHANGED <<entry, table, pc, event, update, log, result>>
  /\ UNCHANGED metrics

\* or rejects it (no such function, throttled, not permitted)
LambdaReject(c) ==
  /\ pc[c] = "awaitInvoke"
  /\ invoke[c].state = "sent"
  /\ invoke' = [invoke EXCEPT ![c].state = "rejected"]
  /\ UNCHANGED <<entry, table, pc, event, update, resp, downstream, log,
                 result>>
  /\ UNCHANGED metrics

Next ==
  \E c \in Calls :
    \/ \E ev \in Events : lambdaHandler(c, ev)
    \/ AfterUpdate(c)
    \/ AfterInvoke(c)
    \/ Timeout(c)
    \/ DynamoUpdate(c)
    \/ DynamoReject(c)
    \/ \E outcome \in Outcomes : LambdaResolve(c, outcome)
    \/ LambdaReject(c)

Spec == Init /\ [][Next]_vars

(***************************************************************************)
(* Properties.                                                             *)
(***************************************************************************)
Count(seq, x) == Cardinality({i \in 1..Len(seq) : seq[i] = x})

\* the invocations whose increment of p DynamoDB applied
Applied(p) ==
  {c \in Calls : update[c].state = "applied" /\ update[c].Key = p}

\* the invocations for p
CallsFor(p) == {c \in Calls : pc[c] # "idle" /\ PathOf(event[c]) = p}

\* the handler returned or threw
Finished(c) == pc[c] \in {"returned", "failed"}

Resolved(c) == invoke[c].state = "resolved"

\* the text of the reply's payload and its parse
ReplyParse(c) == JSONparse(BufferToString(resp[c].Payload))

\* the reply carries a payload that is no JSON text
Malformed(c) == Resolved(c) /\ resp[c].hasPayload /\ ~ReplyParse(c).ok

\* C1: the stored count of every path is the number of increments of that
\* path that were applied, a call that returned had its increment applied,
\* and so, once every call for a path has returned, the count of the path is
\* the number of these calls: no update is lost, whatever the interleaving,
\* and no call for another path changes the count.
C1_NoLostUpdate ==
  \A p \in Paths :
    /\ Hits(p) = Cardinality(Applied(p))
    /\ \A c \in CallsFor(p) : pc[c] = "returned" => c \in Applied(p)
    /\ (\A c \in CallsFor(p) : pc[c] = "returned")
         => Hits(p) = Cardinality(CallsFor(p))

C1_Witness ==
  \E p \in Paths :
    /\ Hits(p) = 2
    /\ Cardinality({c \in CallsFor(p) : pc[c] = "returned"}) = 2

\* C2: when the increment of a call is rejected, the handler throws the
\* error of the counter store, returns no response, and its downstream
\* function is never invoked.
C2_StoreFailureIsFatal ==
  \A c \in Calls :
    update[c].state = "rejected" =>
      /\ invoke[c].state = "none"
      /\ Count(log[c], "InvokeCommand") = 0
      /\ ~downstream[c].ran
      /\ pc[c] \in {"awaitUpdate", "timedOut", "failed"}
      /\ pc[c] = "failed" => result[c] = Throws("CounterStoreError")
      /\ pc[c] # "failed" => result[c] = NoResult

C2_Witness ==
  \E c \in Calls :
    /\ pc[c] = "failed"
    /\ update[c].state = "rejected"
    /\ result[c] = Throws("CounterStoreError")

C4_Verbatim ==
  \A c \in Calls :
    Finished(c) /\ downstream[c].ran /\ resp[c].FunctionError = "" =>
      /\ result[c] = Returns(downstream[c].result)
      /\ downstream[c].result = helloHandler(event[c])

C4_Witness ==
  \E c \in Calls :
    /\ pc[c] = "returned"
    /\ downstream[c].ran
    /\ resp[c].FunctionError = ""
    /\ PathOf(event[c]) = "/\"b\""
    /\ Get(result[c].value, "body").s = "Hello, World! You've hit \"/\"b\"\".\n"

\* C5: a payload that is no JSON text makes the handler throw the parse
\* error, and every response the handler returns is the parse of a payload
\* of the reply, never an empty or default response.
C5_NoDefaultResponse ==
  \A c \in Calls :
    Finished(c) /\ Resolved(c) =>
      /\ Malformed(c) => result[c] = Throws("SyntaxError")
      /\ pc[c] = "returned"
           => resp[c].hasPayload /\ result[c] = Returns(ReplyParse(c).v)

\* C6, as claimed: a call that ran to its end made exactly one mutation of
\* the counter and exactly one downstream invocation.
C6_Original ==
  \A c \in Calls :
    Finished(c) =>
      /\ Count(log[c], "UpdateCommand") = 1
      /\ update[c].state = "applied"
      /\ Count(log[c], "InvokeCommand") = 1

\* C6, amended: a call that ran to its end sent exactly one increment; when
\* the increment succeeded it made one mutation of the counter and exactly
\* one downstream invocation, and when the increment failed it made no
\* mutation and no invocation.
C6_SideEffects ==
  \A c \in Calls :
    Finished(c) =>
      /\ Count(log[c], "UpdateCommand") = 1
      /\ update[c].state \in {"applied", "rejected"}
      /\ update[c].state = "applied" =>
           /\ Count(log[c], "InvokeCommand") = 1
           /\ invoke[c].state \in {"resolved", "rejected"}
      /\ update[c].state = "rejected" =>
           /\ Count(log[c], "InvokeCommand") = 0
           /\ invoke[c].state = "none"
           /\ Hits(update[c].Key) = Cardinality(Applied(update[c].Key))

C6_Witness ==
  \E c \in Calls :
    /\ pc[c] = "returned"
    /\ update[c].state = "applied"
    /\ Count(log[c], "UpdateCommand") = 1
    /\ Count(log[c], "InvokeCommand") = 1

\* C7: a call's downstream invocation is sent only when its increment has
\* been applied to the table, and the handler returns only when the
\* invocation has been resolved.
C7_IncrementBeforeInvoke ==
  \A c \in Calls :
    /\ invoke[c].state # "none" =>
         /\ update[c].state = "applied"
         /\ Hits(update[c].Key) >= 1
    /\ pc[c] = "returned" => Resolved(c)
    /\ Finished(c) /\ invoke[c].state # "none"
         => invoke[c].state \in {"resolved", "rejected"}

C7_Witness ==
  \E c \in Calls :
    /\ pc[c] = "awaitInvoke"
    /\ invoke[c].state = "sent"
    /\ update[c].state = "applied"
    /\ Hits(update[c].Key) >= 1

C8_Step(c) ==
  /\ Count(log'[c], "UpdateCommand") <= 1
  /\ Count(log'[c], "InvokeCommand") <= 1
  /\ pc[c] = "awaitUpdate" /\ update[c].state = "rejected" /\ pc'[c] # pc[c]
       => /\ pc'[c] = "failed"
          /\ result'[c] = Throws("CounterStoreError")
          /\ log'[c] = log[c]
  /\ pc[c] = "awaitInvoke" /\ invoke[c].state = "rejected" /\ pc'[c] # pc[c]
       => /\ pc'[c] = "failed"
          /\ result'[c] = Throws("DownstreamInvocationError")
          /\ log'[c] = log[c]
  /\ pc[c] = "failed"
       => /\ pc'[c] = "failed"
          /\ log'[c] = log[c]
          /\ update'[c] = update[c]
          /\ invoke'[c] = invoke[c]
          /\ result'[c] = result[c]

\* C8: no step makes a call send a second increment or a second invocation;
\* the step a call takes after its increment or its invocation was rejected
\* ends it with that failure and calls no collaborator; and a call that has
\* failed does nothing more.
C8_NoRetries == [][\A c \in Calls : C8_Step(c)]_vars

C8_Witness ==
  \E c \in Calls :
    /\ pc[c] = "failed"
    /\ result[c].error = "DownstreamInvocationError"
    /\ log[c] = <<"UpdateCommand", "addMetric", "publishStoredMetrics",
                  "InvokeCommand">>

\* C9: the payload of a call's invocation is the text of that call's event:
\* parsed back it is the event, with its path and its other fields, and the
\* downstream function runs on that event.
C9_PayloadIsRequest ==
  \A c \in Calls :
    /\ invoke[c].state # "none" =>
         JSONparse(BufferToString(invoke[c].Payload))
           = [ok |-> TRUE, v |-> event[c]]
    /\ downstream[c].ran => downstream[c].event = event[c]

C9_Witness ==
  \E c \in Calls :
    /\ downstream[c].ran
    /\ downstream[c].event = event[c]
    /\ HasKey(event[c], "httpMethod")

\* C10: every step leaves the stored count of a path as it is or raises it
\* by 1; no step lowers or resets one.
C10_Monotone ==
  [][\A p \in Paths : Hits(p)' = Hits(p) \/ Hits(p)' = Hits(p) + 1]_vars

C10_Witness ==
  \E c \in Calls :
    /\ pc[c] = "timedOut"
    /\ invoke[c].state = "sent"
    /\ update[c].state = "applied"
    /\ Hits(update[c].Key) >= 1

\* the number of 'hit' metrics among the blobs a call published
HitsPublished(c) ==
  LET pub == metrics[c].published
  IN  Cardinality(UNION {{<<i, j>> : j \in {k \in 1..Len(pub[i]) :
                                              pub[i][k].name = "hit"}} :
                         i \in 1..Len(pub)})

\* the handler resumed from its await of an increment that succeeded
IncrementResolved(c) ==
  /\ update[c].state = "applied"
  /\ pc[c] # "awaitUpdate"
  /\ ~(pc[c] = "timedOut" /\ invoke[c].state = "none")

\* C11, as claimed: a call that is not waiting for its increment has
\* published the 'hit' metric once if its increment was applied and never
\* otherwise, so that, when no call waits for its increment, the number of
\* published 'hit' metrics is the number of applied increments.
C11_Original ==
  /\ \A c \in Calls :
       pc[c] # "awaitUpdate" =>
         HitsPublished(c) = IF update[c].state = "applied" THEN 1 ELSE 0
  /\ (\A c \in Calls : pc[c] # "awaitUpdate") =>
       Cardinality({c \in Calls : HitsPublished(c) = 1})
         = Cardinality({c \in Calls : update[c].state = "applied"})

\* C11, amended: a call has published the 'hit' metric once if its handler
\* resumed from the await of a successful increment and never otherwise; no
\* metric stays stored; the metric is published when the increment has been
\* applied and before the invocation is sent; a call whose increment was
\* rejected published none and a call whose invocation failed has published
\* it.  A call that is ended while it waits for its increment publishes none
\* though its increment may be applied: the published 'hit' metrics are as
\* many as the calls that resumed from a successful increment, and never
\* more than the applied increments.
C11_HitMetric ==
  /\ \A c \in Calls :
       /\ HitsPublished(c) = IF IncrementResolved(c) THEN 1 ELSE 0
       /\ metrics[c].stored = << >>
       /\ HitsPublished(c) = 1 => update[c].state = "applied"
       /\ invoke[c].state # "none" => HitsPublished(c) = 1
       /\ log[c] \in {<< >>, <<"UpdateCommand">>,
                      <<"UpdateCommand", "addMetric", "publishStoredMetrics",
                        "InvokeCommand">>}
       /\ update[c].state = "rejected" => HitsPublished(c) = 0
       /\ pc[c] = "failed" /\ result[c].error # "CounterStoreError"
            => HitsPublished(c) = 1
  /\ Cardinality({c \in Calls : HitsPublished(c) = 1})
       = Cardinality({c \in Calls : IncrementResolved(c)})
  /\ Cardinality({c \in Calls : HitsPublished(c) = 1})
       <= Cardinality({c \in Calls : update[c].state = "applied"})

C11_Witness ==
  \E c, d \in Calls :
    /\ pc[c] = "failed"
    /\ result[c].error = "DownstreamInvocationError"
    /\ HitsPublished(c) = 1
    /\ pc[d] = "failed"
    /\ result[d].error = "CounterStoreError"
    /\ HitsPublished(d) = 0

\* the calls of a handler that ran to its end
CallsMade(updated) ==
  IF updated
  THEN <<"UpdateCommand", "addMetric", "publishStoredMetrics",
         "InvokeCommand">>
  ELSE <<"UpdateCommand">>

\* the TypeScript handler from its request and the outcomes of its two
\* collaborators: the calls it makes, the payload it sends and its result
hitcounterTypeScript(ev, updated, invoked, reply) ==
  [calls   |-> CallsMade(updated),
   Payload |-> IF updated THEN invokeCommand(ev).Payload ELSE << >>,
   result  |-> IF ~updated THEN Throws("CounterStoreError")
               ELSE IF ~invoked THEN Throws("DownstreamInvocationError")
               ELSE IF reply.hasPayload
                    THEN LET parsed ==
                               JSONparse(BufferToString(reply.Payload))
                         IN  IF parsed.ok THEN Returns(parsed.v)
                             ELSE Throws("SyntaxError")
                    ELSE Returns(JObj(<< >>))]

\* the JavaScript handler likewise: the text of the request is sent as
\* its bytes, and resp.Payload, absent or present, is parsed
hitcounterJavaScript(ev, updated, invoked, reply) ==
  [calls   |-> CallsMade(updated),
   Payload |-> IF updated THEN BufferFrom(JSONstringify(ev)) ELSE << >>,
   result  |-> IF ~updated THEN Throws("CounterStoreError")
               ELSE IF ~invoked THEN Throws("DownstreamInvocationError")
               ELSE LET parsed == IF reply.hasPayload
                                  THEN JSONparse(BufferToString(reply.Payload))
                                  ELSE SyntaxError
                    IN  IF parsed.ok THEN Returns(parsed.v)
                        ELSE Throws("SyntaxError")]

\* what a call that ran to its end did
Observed(c) ==
  [calls |-> log[c], Payload |-> invoke[c].Payload, result |-> result[c]]

\* C12: for the request and the collaborator outcomes of every call that ran
\* to its end, the JavaScript and the TypeScript handler make the same calls
\* with the same payload and end alike, with the same response or the same
\* failure, and this is what the deployed handler did.
C12_Equivalent ==
  \A c \in Calls :
    Finished(c) =>
      LET updated == update[c].state = "applied"
          invoked == invoke[c].state = "resolved"
          ts == hitcounterTypeScript(event[c], updated, invoked, resp[c])
          js == hitcounterJavaScript(event[c], updated, invoked, resp[c])
      IN  /\ ts = js
          /\ Observed(c) = IF entry = "typescript" THEN ts ELSE js

====
